---- MODULE Spec2Model ----
(***************************************************************************)
(* GeoRisk-AI: the analysis cache (SQLite table analysis_cache behind      *)
(* GET/POST /api/cache), the React client that gates the external analyzer *)
(* with an in-memory snapshot of that table (App.tsx: init, handleAnalyze) *)
(* and the aggregates the client derives from the snapshot.                *)
(*                                                                         *)
(* One browser page talks to one server.  The server handlers are          *)
(* synchronous (better-sqlite3), so a request to /api/cache is one atomic  *)
(* step; every await of the client is a step boundary.                     *)
(*                                                                         *)
(* handleAnalyze is modelled for the news items of the list.  For a typed  *)
(* headline it differs only in its id, `custom-${Date.now()}`, which no    *)
(* cached row has; loading and selectedNews are display state.             *)
(*                                                                         *)
(* Spec is the application over a small feed.  The other specifications    *)
(* run the same actions from database files that earlier page loads have   *)
(* filled (SpecBackfill, SpecAgg, SpecCorpus, SpecSector) or over a feed   *)
(* whose headline the analyzer may answer out of its schema (SpecHard).    *)
(***************************************************************************)
EXTENDS Integers, Sequences, FiniteSets, Bags, TLC

VARIABLES
    db,              \* server: rows of analysis_cache, in rowid order
    clock,           \* server: CURRENT_TIMESTAMP, in seconds
    news,            \* client: useState news (ids of the NewsItems)
    cachedAnalyses,  \* client: useState cachedAnalyses (rows)
    currentAnalysis, \* client: useState currentAnalysis
    isInitializing,  \* client: useState isInitializing
    initPc,          \* client: position of init()
    initIdx,         \* client: position of the for..of loop of init()
    initAnalysis,    \* client: the local `analysis` of init()'s loop body
    req,             \* client: the handleAnalyze invocations in flight (a bag)
    bfStarted,       \* history: items init() has called analyzeHeadline for
    succeeded,       \* history: ids a handleAnalyze call analysed and stored
    lastPut,         \* history: id -> the analysis of the last applied POST
    failed           \* history: ids whose analysis handleAnalyze saw rejected
                     \*          since the page was loaded

vars == <<db, clock, news, cachedAnalyses, currentAnalysis, isInitializing,
          initPc, initIdx, initAnalysis, req, bfStarted, succeeded, lastPut,
          failed>>

clientVars == <<news, cachedAnalyses, currentAnalysis, isInitializing,
                initPc, initIdx, initAnalysis, req, bfStarted>>

-----------------------------------------------------------------------------
(* Bounds of the model *)

\* seconds the server clock may advance
MaxClock == 1
\* handleAnalyze invocations that may be in flight together
MaxReq == 2
(* Program constants *)

\* LIMIT 50 of GET /api/cache
CacheLimit == 50
\* cacheData.length < 5
BackfillFloor == 5
\* newsData.slice(0, 5)
BackfillPrefix == 5
\* cachedAnalyses.slice(0, 15)
IndexWindow == 15

-----------------------------------------------------------------------------
(* Values *)

Min(a, b) == IF a < b THEN a ELSE b

\* riskScore as the analyzer's response schema documents it
ScoreRange == 1..10

\* The headline text of a feed item; the analyzer is called with it.
Headline(id) == id

\* The scores the analyzer may answer with for a headline.  The analyzer is
\* not deterministic: the first item has two possible answers.
Scores(headline) == IF headline = 1 THEN {3, 8} ELSE IF headline = 2 THEN {8} ELSE {5}

\* A GeopoliticalAnalysis (the fields the cache and the aggregates read); a
\* text is a sequence of characters where the program looks into it.
AnalysisOf(score, region, industries, consequences) ==
    [riskScore |-> score, region |-> region, industries |-> industries,
     consequences |-> consequences]

Analysis(score) == AnalysisOf(score, "region", <<>>, "consequences")

NoAnalysis == [riskScore |-> 0]

\* JSON.parse(response.text || "{}") for a response without text: {}
EmptyObject == [field \in {} |-> 0]

\* The answer to a headline whose response may come without the text, or
\* with a text that lacks `industries`.
Hard == 7

\* What JSON.parse returns when the response does not follow the schema.
Malformed(headline) ==
    IF headline = Hard
    THEN {EmptyObject,
          [riskScore |-> 7, region |-> "region", consequences |-> "consequences"]}
    ELSE {}

\* The responses analyzeHeadline may resolve with: it returns what
\* JSON.parse returns.
analyzeHeadline(headline) ==
    {Analysis(s) : s \in Scores(headline)} \cup Malformed(headline)

\* analysis.riskScore is undefined for an object without the property.
HasRiskScore(analysis) == "riskScore" \in DOMAIN analysis

\* JSON.stringify / JSON.parse of an analysis: the text is kept as a tagged
\* value, which is not the object it encodes.
JsonStringify(a) == [json |-> a]
JsonParse(s) == s.json

\* What /api/news may answer: the feed changes between page loads.
Feeds == {<<1, 2>>, <<2>>}

\* What /api/news may answer when the backfill is studied on its own: more
\* candidates than the prefix takes, and fewer.
BackfillFeeds == {<<1, 2, 3, 4, 5, 6>>, <<4, 3>>}

\* What /api/news may answer when the analyzer's responses are studied: the
\* headline of item Hard is one the analyzer may answer out of the schema.
HardFeeds == {<<Hard>>}

\* The identities of the news items.
Ids == UNION {{f[k] : k \in DOMAIN f} : f \in Feeds \cup BackfillFeeds \cup HardFeeds}

-----------------------------------------------------------------------------
(* Server: analysis_cache *)

RowsOf(d, id) == {i \in DOMAIN d : d[i].id = id}

HasRow(d, id) == RowsOf(d, id) # {}

Row(id, headline, analysis, risk_score) ==
    [id |-> id, headline |-> headline, analysis |-> JsonStringify(analysis),
     risk_score |-> risk_score, timestamp |-> clock]

\* A table without the PRIMARY KEY: every INSERT adds a row.
InsertNoKey(d, id, headline, analysis, risk_score) ==
    Append(d, Row(id, headline, analysis, risk_score))

\* INSERT OR IGNORE: the first row of an id stays.
InsertOrIgnore(d, id, headline, analysis, risk_score) ==
    IF HasRow(d, id) THEN d ELSE Append(d, Row(id, headline, analysis, risk_score))

\* An upsert that, for an id that has a row, sets the risk_score column only.
InsertOrUpdateScore(d, id, headline, analysis, risk_score) ==
    IF HasRow(d, id)
    THEN [i \in DOMAIN d |->
             IF d[i].id = id THEN [d[i] EXCEPT !.risk_score = risk_score] ELSE d[i]]
    ELSE Append(d, Row(id, headline, analysis, risk_score))

\* INSERT OR REPLACE INTO analysis_cache (id, headline, analysis, risk_score):
\* id is the PRIMARY KEY, so the rows that conflict on id are deleted, and the
\* new row gets the next rowid and timestamp DEFAULT CURRENT_TIMESTAMP.
InsertOrReplace(d, id, headline, analysis, risk_score) ==
    Append(SelectSeq(d, LAMBDA row : row.id # id),
           Row(id, headline, analysis, risk_score))

\* The enumerations of a set of row positions.
Perms(S) ==
    {f \in [1..Cardinality(S) -> S] : \A i, j \in DOMAIN f : f[i] = f[j] => i = j}

MaxOf(S) == CHOOSE x \in S : \A y \in S : y <= x

\* ORDER BY timestamp DESC over the rows with a timestamp in T: SQL leaves the
\* order of rows with equal timestamps open, so every order of them is a result.
RECURSIVE OrderByTimestampDesc(_, _)
OrderByTimestampDesc(d, T) ==
    IF T = {} THEN {<<>>}
    ELSE LET t == MaxOf(T)
             group == {i \in DOMAIN d : d[i].timestamp = t}
         IN {[k \in 1..Cardinality(group) |-> d[p[k]]] \o rest :
                p \in Perms(group), rest \in OrderByTimestampDesc(d, T \ {t})}

Limit(l, n) == SubSeq(l, 1, Min(Len(l), n))

\* SELECT * FROM analysis_cache ORDER BY timestamp DESC LIMIT 50
SelectCache(d) ==
    {Limit(l, CacheLimit) :
        l \in OrderByTimestampDesc(d, {d[i].timestamp : i \in DOMAIN d})}

\* Array.prototype.slice(from, to) with 0 <= from <= to
Slice(s, from, to) == SubSeq(s, from + 1, Min(Len(s), to))

\* cachedAnalyses.find(c => c.id === id)
Find(snapshot, id) ==
    LET hits == {i \in DOMAIN snapshot : snapshot[i].id = id}
    IN IF hits = {} THEN <<>> ELSE <<snapshot[CHOOSE i \in hits : \A j \in hits : i <= j]>>

-----------------------------------------------------------------------------
(* History *)

\* POST /api/cache answered with success: the row is written.
PostApplied(id, headline, analysis, risk_score) ==
    /\ db' = InsertOrReplace(db, id, headline, analysis, risk_score)
    /\ lastPut' = [lastPut EXCEPT ![id] = analysis]

\* POST /api/cache answered 500 (run() threw), or never answered: no row.
\* run() throws when the storage fails, and always when risk_score is
\* undefined (better-sqlite3 binds numbers, strings, bigints, buffers and
\* null only).
PostRefused == UNCHANGED <<db, lastPut>>

-----------------------------------------------------------------------------
\* A handleAnalyze invocation that awaits analyzeHeadline; puts counts its
\* saveToCache calls and applied tells whether the POST wrote the row.
Invocation(id) ==
    [pc |-> "analyzing", id |-> id, analysis |-> NoAnalysis, puts |-> 0,
     applied |-> FALSE]

Init ==
    /\ db = <<>>
    /\ clock = 0
    /\ news = <<>>
    /\ cachedAnalyses = <<>>
    /\ currentAnalysis = NoAnalysis
    /\ isInitializing = TRUE
    /\ initPc = "start"
    /\ initIdx = 0
    /\ initAnalysis = NoAnalysis
    /\ req = EmptyBag
    /\ bfStarted = <<>>
    /\ succeeded = {}
    /\ lastPut = [id \in Ids |-> NoAnalysis]
    /\ failed = {}

\* The server's clock advances.
Tick ==
    /\ clock < MaxClock
    /\ clock' = clock + 1
    /\ UNCHANGED <<db, clientVars, succeeded, lastPut, failed>>

-----------------------------------------------------------------------------
(* Client: init() of the useEffect, App.tsx 42-63 *)

\* const toAnalyze = newsData.slice(0, 5)
toAnalyze == Slice(news, 0, BackfillPrefix)

\* catch (error) { console.error } finally { setIsInitializing(false) }
InitCatch ==
    /\ initPc' = "done"
    /\ isInitializing' = FALSE

\* init() returns: its locals are gone.
InitReturn ==
    /\ initIdx' = 0
    /\ initAnalysis' = NoAnalysis
    /\ bfStarted' = <<>>

\* Promise.all([fetchNews(), fetchCache()]) resolves; the states are set and
\* the loop is entered (its first analyzeHeadline call is made) when the cache
\* is sparse and there is news.
InitFetchFrom(feeds) ==
    /\ initPc = "start"
    /\ \E newsData \in feeds, cacheData \in SelectCache(db) :
        /\ news' = newsData
        /\ cachedAnalyses' = cacheData
        /\ IF Len(cacheData) < BackfillFloor /\ Len(newsData) > 0
           THEN /\ initPc' = "analyzing"
                /\ initIdx' = 1
                /\ bfStarted' = <<newsData[1]>>
                /\ UNCHANGED isInitializing
           ELSE /\ InitCatch
                /\ UNCHANGED <<initIdx, bfStarted>>
    /\ UNCHANGED <<db, clock, currentAnalysis, initAnalysis, req, succeeded,
                   lastPut, failed>>

InitFetch == InitFetchFrom(Feeds)

\* fetchNews() or fetchCache() rejects (res.ok is false, or no answer).
InitFetchFail ==
    /\ initPc = "start"
    /\ InitCatch
    /\ UNCHANGED <<db, clock, news, cachedAnalyses, currentAnalysis, initIdx,
                   initAnalysis, req, bfStarted, succeeded, lastPut, failed>>

\* await analyzeHeadline(item.headline) resolves.
InitAnalyzed ==
    /\ initPc = "analyzing"
    /\ \E a \in analyzeHeadline(Headline(toAnalyze[initIdx])) : initAnalysis' = a
    /\ initPc' = "saving"
    /\ UNCHANGED <<db, clock, news, cachedAnalyses, currentAnalysis,
                   isInitializing, initIdx, req, bfStarted, succeeded, lastPut,
                   failed>>

\* await analyzeHeadline(item.headline) rejects: the loop is left.
InitAnalyzeFail ==
    /\ initPc = "analyzing"
    /\ InitCatch
    /\ InitReturn
    /\ UNCHANGED <<db, clock, news, cachedAnalyses, currentAnalysis, req,
                   succeeded, lastPut, failed>>

\* The loop goes on to the next item, or to fetchCache() after the last one.
InitLoopNext ==
    IF initIdx < Len(toAnalyze)
    THEN /\ initIdx' = initIdx + 1
         /\ initPc' = "analyzing"
         /\ bfStarted' = Append(bfStarted, toAnalyze[initIdx + 1])
    ELSE /\ initPc' = "refetch"
         /\ UNCHANGED <<initIdx, bfStarted>>

\* await saveToCache(item.id, item.headline, analysis, analysis.riskScore):
\* saveToCache does not read the response, so a 500 goes unnoticed.
InitSave ==
    /\ initPc = "saving"
    /\ LET id == toAnalyze[initIdx]
       IN \/ /\ HasRiskScore(initAnalysis)
             /\ PostApplied(id, Headline(id), initAnalysis, initAnalysis.riskScore)
          \/ PostRefused
    /\ InitLoopNext
    /\ initAnalysis' = NoAnalysis
    /\ UNCHANGED <<clock, news, cachedAnalyses, currentAnalysis,
                   isInitializing, req, succeeded, failed>>

\* fetch() of saveToCache rejects (no answer from the server).
InitSaveFail ==
    /\ initPc = "saving"
    /\ InitCatch
    /\ InitReturn
    /\ UNCHANGED <<db, clock, news, cachedAnalyses, currentAnalysis, req,
                   succeeded, lastPut, failed>>

\* const updatedCache = await fetchCache(); setCachedAnalyses(updatedCache)
InitRefetch ==
    /\ initPc = "refetch"
    /\ \E updatedCache \in SelectCache(db) : cachedAnalyses' = updatedCache
    /\ InitCatch
    /\ InitReturn
    /\ UNCHANGED <<db, clock, news, currentAnalysis, req, succeeded, lastPut,
                   failed>>

InitRefetchFail ==
    /\ initPc = "refetch"
    /\ InitCatch
    /\ InitReturn
    /\ UNCHANGED <<db, clock, news, cachedAnalyses, currentAnalysis, req,
                   succeeded, lastPut, failed>>

-----------------------------------------------------------------------------
(* Client: handleAnalyze(item) for a news item, App.tsx 67-91 *)

InFlight == BagToSet(req)

\* The invocation c goes on as c2.
Replace(c, c2) == (req (-) SetToBag({c})) (+) SetToBag({c2})

\* The invocation c returns.
Remove(c) == req (-) SetToBag({c})

\* A handleAnalyze that skips the cache check of line 74.
HandleAnalyzeNoGate(id) ==
    /\ ~isInitializing
    /\ \E k \in DOMAIN news : news[k] = id
    /\ BagCardinality(req) < MaxReq
    /\ req' = req (+) SetToBag({Invocation(id)})
    /\ UNCHANGED <<db, clock, news, cachedAnalyses, currentAnalysis,
                   isInitializing, initPc, initIdx, initAnalysis, bfStarted,
                   succeeded, lastPut, failed>>

\* The click on a news item: the cache check of line 74, then either the
\* cached analysis is shown or analyzeHeadline is called.  The list of news
\* items is rendered once isInitializing is false.
HandleAnalyze(id) ==
    /\ ~isInitializing
    /\ \E k \in DOMAIN news : news[k] = id
    /\ LET cached == Find(cachedAnalyses, id)
       IN IF cached # <<>>
          THEN /\ currentAnalysis' = JsonParse(cached[1].analysis)
               /\ UNCHANGED req
          ELSE /\ BagCardinality(req) < MaxReq
               /\ req' = req (+) SetToBag({Invocation(id)})
               /\ UNCHANGED currentAnalysis
    /\ UNCHANGED <<db, clock, news, cachedAnalyses, isInitializing, initPc,
                   initIdx, initAnalysis, bfStarted, succeeded, lastPut,
                   failed>>

\* await analyzeHeadline(headline) resolves; setCurrentAnalysis(analysis).
Analyzed(c) ==
    /\ c.pc = "analyzing"
    /\ \E a \in analyzeHeadline(Headline(c.id)) :
        /\ req' = Replace(c, [c EXCEPT !.pc = "saving", !.analysis = a])
        /\ currentAnalysis' = a
    /\ UNCHANGED <<db, clock, news, cachedAnalyses, isInitializing, initPc,
                   initIdx, initAnalysis, bfStarted, succeeded, lastPut,
                   failed>>

\* A catch block that stores the failed attempt.
AnalyzeFailCached(c) ==
    /\ c.pc = "analyzing"
    /\ req' = Remove(c)
    /\ failed' = failed \cup {c.id}
    /\ PostApplied(c.id, Headline(c.id), NoAnalysis, 0)
    /\ UNCHANGED <<clock, news, cachedAnalyses, currentAnalysis,
                   isInitializing, initPc, initIdx, initAnalysis, bfStarted,
                   succeeded>>

\* await analyzeHeadline(headline) rejects: catch, finally.
AnalyzeFail(c) ==
    /\ c.pc = "analyzing"
    /\ req' = Remove(c)
    /\ failed' = failed \cup {c.id}
    /\ UNCHANGED <<db, clock, news, cachedAnalyses, currentAnalysis,
                   isInitializing, initPc, initIdx, initAnalysis, bfStarted,
                   succeeded, lastPut>>

\* await saveToCache(id, headline, analysis, analysis.riskScore): the POST is
\* answered; saveToCache does not read the answer.
Save(c) ==
    /\ c.pc = "saving"
    /\ \/ /\ HasRiskScore(c.analysis)
          /\ PostApplied(c.id, Headline(c.id), c.analysis, c.analysis.riskScore)
          /\ succeeded' = succeeded \cup {c.id}
          /\ req' = Replace(c, [c EXCEPT !.pc = "fetching", !.puts = @ + 1,
                                         !.applied = TRUE])
       \/ /\ PostRefused
          /\ UNCHANGED succeeded
          /\ req' = Replace(c, [c EXCEPT !.pc = "fetching", !.puts = @ + 1])
    /\ UNCHANGED <<clock, news, cachedAnalyses, currentAnalysis,
                   isInitializing, initPc, initIdx, initAnalysis, bfStarted,
                   failed>>

\* fetch() of saveToCache rejects (no answer from the server): catch, finally.
SaveFail(c) ==
    /\ c.pc = "saving"
    /\ req' = Remove(c)
    /\ UNCHANGED <<db, clock, news, cachedAnalyses, currentAnalysis,
                   isInitializing, initPc, initIdx, initAnalysis, bfStarted,
                   succeeded, lastPut, failed>>

\* const updatedCache = await fetchCache(); setCachedAnalyses(updatedCache)
Refetch(c) ==
    /\ c.pc = "fetching"
    /\ \E updatedCache \in SelectCache(db) : cachedAnalyses' = updatedCache
    /\ req' = Remove(c)
    /\ UNCHANGED <<db, clock, news, currentAnalysis, isInitializing, initPc,
                   initIdx, initAnalysis, bfStarted, succeeded, lastPut,
                   failed>>

\* fetchCache() rejects: catch, finally.
RefetchFail(c) ==
    /\ c.pc = "fetching"
    /\ req' = Remove(c)
    /\ UNCHANGED <<db, clock, news, cachedAnalyses, currentAnalysis,
                   isInitializing, initPc, initIdx, initAnalysis, bfStarted,
                   succeeded, lastPut, failed>>

\* The page is loaded again: the component state starts over and init() runs;
\* what was in flight is dropped.  The database file stays.
Reload ==
    /\ news' = <<>>
    /\ cachedAnalyses' = <<>>
    /\ currentAnalysis' = NoAnalysis
    /\ isInitializing' = TRUE
    /\ initPc' = "start"
    /\ initIdx' = 0
    /\ initAnalysis' = NoAnalysis
    /\ req' = EmptyBag
    /\ bfStarted' = <<>>
    /\ failed' = {}
    /\ UNCHANGED <<db, clock, succeeded, lastPut>>

-----------------------------------------------------------------------------
InitSteps ==
    \/ InitFetch
    \/ InitFetchFail
    \/ InitAnalyzed
    \/ InitAnalyzeFail
    \/ InitSave
    \/ InitSaveFail
    \/ InitRefetch
    \/ InitRefetchFail

Next ==
    \/ Tick
    \/ InitSteps
    \/ \E id \in Ids : HandleAnalyze(id)
    \/ \E c \in InFlight : Analyzed(c)
    \/ \E c \in InFlight : AnalyzeFail(c)
    \/ \E c \in InFlight : Save(c)
    \/ \E c \in InFlight : SaveFail(c)
    \/ \E c \in InFlight : Refetch(c)
    \/ \E c \in InFlight : RefetchFail(c)
    \/ Reload

Spec == Init /\ [][Next]_vars

\* The history of a database file that earlier page loads have filled.
HistoryOf(d) ==
    [id \in Ids |->
        IF HasRow(d, id)
        THEN JsonParse(d[CHOOSE i \in RowsOf(d, id) : TRUE].analysis)
        ELSE NoAnalysis]

-----------------------------------------------------------------------------
(* Client: the aggregates, useMemo over cachedAnalyses, App.tsx 93-105 *)

\* A JavaScript value of the index: the number 0, or the text of toFixed(1),
\* kept as its integer digits and its one fraction digit.
NumberZero == [type |-> "number", int |-> 0, frac |-> 0]

DecimalText(tenths) == [type |-> "string", int |-> tenths \div 10, frac |-> tenths % 10]

\* (sum / n).toFixed(1): the decimal with one fraction digit nearest to the
\* quotient, the larger one when two are equally near.
ToFixed1(sum, n) == DecimalText((20 * sum + n) \div (2 * n))

\* parseFloat of such a value, in tenths.
ParseFloat(v) == 10 * v.int + v.frac

\* last15.reduce((acc, curr) => acc + curr.risk_score, 0)
RECURSIVE SumRiskScore(_)
SumRiskScore(rows) ==
    IF rows = <<>> THEN 0 ELSE rows[1].risk_score + SumRiskScore(Tail(rows))

\* An index that averages the whole snapshot.
globalRiskIndexAll(snapshot) ==
    IF Len(snapshot) = 0 THEN NumberZero
    ELSE ToFixed1(SumRiskScore(snapshot), Len(snapshot))

globalRiskIndexOf(snapshot) ==
    IF Len(snapshot) = 0 THEN NumberZero
    ELSE LET last15 == Slice(snapshot, 0, IndexWindow)
         IN ToFixed1(SumRiskScore(last15), Len(last15))

\* Bands that exclude their lower bound.
globalRiskLabelStrict(index) ==
    LET score == ParseFloat(index)
    IN IF score > 70 THEN "Elevated Geopolitical Risk"
       ELSE IF score > 40 THEN "Moderate Geopolitical Tension"
       ELSE "Low Geopolitical Risk"

globalRiskLabelOf(index) ==
    LET score == ParseFloat(index)
    IN IF score >= 70 THEN "Elevated Geopolitical Risk"
       ELSE IF score >= 40 THEN "Moderate Geopolitical Tension"
       ELSE "Low Geopolitical Risk"

globalRiskIndex == globalRiskIndexOf(cachedAnalyses)

globalRiskLabel == globalRiskLabelOf(globalRiskIndex)

-----------------------------------------------------------------------------
(* The aggregates on their own: page loads that find nothing to backfill,   *)
(* over a database file that earlier page loads have filled.                 *)

\* most rows of such a database file
MaxAggRows == 16

\* n rows in rowid order: the first j have score a, the others score b; the
\* timestamps grow by a second per row, but rows tie and tie + 1 (tie > 0)
\* were put within the same second.
AggStore(n, a, b, j, tie) ==
    [i \in 1..n |->
        LET score == IF i <= j THEN a ELSE b
        IN [id |-> i, headline |-> Headline(i),
            analysis |-> JsonStringify(Analysis(score)), risk_score |-> score,
            timestamp |-> IF tie > 0 /\ i > tie THEN i - 1 ELSE i]]

\* Three records with scores 2, 8, 5 at increasing timestamps.
ScenarioStore ==
    [i \in 1..3 |->
        LET score == <<2, 8, 5>>[i]
        IN [id |-> i, headline |-> Headline(i),
            analysis |-> JsonStringify(Analysis(score)), risk_score |-> score,
            timestamp |-> i]]

\* Scores one apart reach every sum a window can have.
AggStores ==
    {ScenarioStore} \cup
    {AggStore(n, p[1], p[2], j, tie) :
        n \in 0..MaxAggRows,
        p \in {q \in ScoreRange \X ScoreRange : q[2] - q[1] \in {-1, 0, 1}},
        j \in 0..MaxAggRows, tie \in {0, 1, MaxAggRows - 1}}

InitAgg ==
    /\ db \in AggStores
    /\ clock = Len(db)
    /\ news = <<>>
    /\ cachedAnalyses = <<>>
    /\ currentAnalysis = NoAnalysis
    /\ isInitializing = TRUE
    /\ initPc = "start"
    /\ initIdx = 0
    /\ initAnalysis = NoAnalysis
    /\ req = EmptyBag
    /\ bfStarted = <<>>
    /\ succeeded = {}
    /\ lastPut = HistoryOf(db)
    /\ failed = {}

\* /api/news answers with no items.
InitFetchAgg == InitFetchFrom({<<>>})

NextAgg ==
    \/ InitFetchAgg
    \/ Reload

SpecAgg == InitAgg /\ [][NextAgg]_vars

-----------------------------------------------------------------------------
(* The backfill on its own: init() of one page load, over a database file   *)
(* that earlier page loads have filled.                                      *)

\* Rows for the identities 1..k, put in that order at time 0.
StoreOf(k) ==
    [i \in 1..k |->
        [id |-> i, headline |-> Headline(i),
         analysis |-> JsonStringify(Analysis(5)), risk_score |-> 5,
         timestamp |-> 0]]

\* most rows a database file holds at the page load
MaxStored == 6

BackfillStores == {StoreOf(k) : k \in 0..MaxStored}

InitBackfill ==
    /\ db \in BackfillStores
    /\ clock = 0
    /\ news = <<>>
    /\ cachedAnalyses = <<>>
    /\ currentAnalysis = NoAnalysis
    /\ isInitializing = TRUE
    /\ initPc = "start"
    /\ initIdx = 0
    /\ initAnalysis = NoAnalysis
    /\ req = EmptyBag
    /\ bfStarted = <<>>
    /\ succeeded = {}
    /\ lastPut = HistoryOf(db)
    /\ failed = {}

InitFetchBackfill == InitFetchFrom(BackfillFeeds)

NextBackfill ==
    \/ Tick
    \/ InitFetchBackfill
    \/ InitFetchFail
    \/ InitAnalyzed
    \/ InitAnalyzeFail
    \/ InitSave
    \/ InitSaveFail
    \/ InitRefetch
    \/ InitRefetchFail

SpecBackfill == InitBackfill /\ [][NextBackfill]_vars

-----------------------------------------------------------------------------
(* Steps, as the properties below name them *)

\* A handleAnalyze invocation for id calls analyzeHeadline in this step.
Invokes(id) == req' = req (+) SetToBag({Invocation(id)})

\* The invocation c goes on as c2 in this step.
Becomes(c, c2) == c # c2 /\ req' = Replace(c, c2)

\* The invocation c returns in this step (the page is not loaded again).
Returns(c) == req' = Remove(c) /\ ~isInitializing'

\* init() calls analyzeHeadline for id in this step.
BackfillInvokes(id) ==
    /\ Len(bfStarted') = Len(bfStarted) + 1
    /\ bfStarted'[Len(bfStarted')] = id

\* init() returns in this step.
InitEnds == initPc # "done" /\ initPc' = "done"

\* The record the Store holds for id (there is one).
Stored(id) == db[CHOOSE i \in RowsOf(db, id) : TRUE]

-----------------------------------------------------------------------------
(* C1: once a handleAnalyze call for identity i has analysed i and stored    *)
(* the record, every later handleAnalyze call for i shows the stored         *)
(* assessment of i and does not call the analyzer again.                     *)
C1_ReusedForever ==
    [][\A i \in succeeded :
          HandleAnalyze(i) =>
              /\ ~Invokes(i)
              /\ currentAnalysis' = JsonParse(Stored(i).analysis)]_vars

(* C2: the Store holds at most one record per identity: an identity that was *)
(* never put has none, one that was put, once or again, has exactly one.     *)
C2_OneRecordPerIdentity ==
    \A id \in Ids :
        Cardinality(RowsOf(db, id)) = IF lastPut[id] = NoAnalysis THEN 0 ELSE 1

\* The same record was written twice (by two calls for identity 2 that ran
\* together) and the Store holds one record for it, next to another one.
C2_Witness ==
    /\ \E c \in InFlight :
          /\ c.id = 2 /\ c.applied
          /\ CopiesIn(c, req) = 2
    /\ Cardinality(RowsOf(db, 2)) = 1
    /\ Len(db) = 2

(* C3: when the analyzer fails in a handleAnalyze call for y, that call      *)
(* writes no record (the Store and the snapshot stay as they are), no record *)
(* of the Store is anything but an analyzer's answer, and a handleAnalyze    *)
(* call for an identity the snapshot does not hold calls the analyzer.       *)
C3_FailureNotCached ==
    [][/\ \A c \in InFlight :
             AnalyzeFail(c) =>
                /\ db' = db
                /\ cachedAnalyses' = cachedAnalyses
                /\ \A i \in DOMAIN db' :
                      JsonParse(db'[i].analysis) \in analyzeHeadline(db'[i].headline)
       /\ \A y \in Ids :
             (HandleAnalyze(y) /\ Find(cachedAnalyses, y) = <<>>) => Invokes(y)]_vars

\* The analyzer failed for identity 1, nothing is stored for it, and the
\* next handleAnalyze call for 1 has called the analyzer again.
C3_Witness ==
    /\ 1 \in failed
    /\ ~HasRow(db, 1)
    /\ req = SetToBag({Invocation(1)})

(* C4: a handleAnalyze call makes exactly one saveToCache call when it       *)
(* misses the cache and the analyzer succeeds, none when it hits the cache   *)
(* or the analyzer fails; the Store changes only in a saveToCache call.      *)
C4_WritesPerRequest ==
    [][/\ \A id \in Ids :
             (HandleAnalyze(id) /\ Find(cachedAnalyses, id) # <<>>) =>
                 (db' = db /\ req' = req)
       /\ \A c \in InFlight :
             /\ \A c2 \in BagToSet(req') :
                   Becomes(c, c2) =>
                       \/ /\ c.pc = "analyzing" /\ c2.pc = "saving"
                          /\ c.puts = 0 /\ c2.puts = 0
                          /\ db' = db
                       \/ /\ c.pc = "saving" /\ c2.pc = "fetching"
                          /\ c.puts = 0 /\ c2.puts = 1
             /\ Returns(c) =>
                   \/ c.pc = "analyzing" /\ c.puts = 0 /\ db' = db
                   \/ c.pc = "saving" /\ c.puts = 0 /\ db' = db
                   \/ c.pc = "fetching" /\ c.puts = 1 /\ db' = db
       /\ db' # db =>
             \/ \E c \in InFlight : \E c2 \in BagToSet(req') :
                   Becomes(c, c2) /\ c.pc = "saving"
             \/ initPc = "saving"]_vars

\* A call that missed has analysed, made its one saveToCache call and the
\* record is in the Store.
C4_Witness ==
    \E c \in InFlight :
        /\ c.pc = "fetching"
        /\ c.puts = 1
        /\ c.applied
        /\ Stored(c.id).analysis = JsonStringify(c.analysis)

C6_BackfillContinues ==
    [][(InitEnds /\ bfStarted # <<>>) => bfStarted = toAnalyze]_vars

(* C7: the backfill goes through the cache gate: for a candidate whose       *)
(* identity has a record in the Store it does not call the analyzer and      *)
(* does not write the Store.                                                 *)
C7_BackfillGated ==
    [][/\ \A id \in Ids : BackfillInvokes(id) => ~HasRow(db, id)
       /\ (initPc = "saving" /\ HasRow(db, toAnalyze[initIdx])) => db' = db]_vars

(* C8: the backfill runs only when the count read at startup is below 5; it  *)
(* then processes exactly the first min(5, available) candidates in feed     *)
(* order, one at a time: the analyzer is called for a candidate only after   *)
(* the previous candidate was analysed and saved.                            *)
C8_BackfillPrefix ==
    [][/\ (initPc = "start" /\ initPc' = "analyzing") =>
              Len(cachedAnalyses') < BackfillFloor
       /\ (initPc = "start" /\ initPc' = "done") =>
              (Len(cachedAnalyses') >= BackfillFloor \/ Len(news') = 0)
       /\ (InitEnds /\ initPc # "start") =>
              bfStarted = SubSeq(news, 1, Min(BackfillPrefix, Len(news)))
       /\ \A id \in Ids : BackfillInvokes(id) => initPc \in {"start", "saving"}]_vars

-----------------------------------------------------------------------------
(* The Store as the aggregates' claims speak of it *)

\* The dashboard is rendered and its snapshot is what GET /api/cache answers.
Rendered == ~isInitializing /\ cachedAnalyses \in SelectCache(db)

\* The records of the Store that the first IndexWindow places of the snapshot name.
WindowRows ==
    {i \in DOMAIN db :
        \E k \in 1..Min(IndexWindow, Len(cachedAnalyses)) :
            cachedAnalyses[k].id = db[i].id}

RECURSIVE SumOfRows(_)
SumOfRows(S) ==
    IF S = {} THEN 0
    ELSE LET i == CHOOSE x \in S : TRUE
         IN db[i].risk_score + SumOfRows(S \ {i})

Abs(x) == IF x < 0 THEN -x ELSE x

\* The band of the mean sum / n, lower bounds included.
Band(sum, n) ==
    IF sum >= 7 * n THEN "Elevated Geopolitical Risk"
    ELSE IF sum >= 4 * n THEN "Moderate Geopolitical Tension"
    ELSE "Low Geopolitical Risk"

(* C9: the Global Risk Index is 0 for an empty Store; otherwise it is the    *)
(* mean of riskScore over the min(15, count) most recent records by          *)
(* createdAt, as a decimal with one fraction digit nearest to that mean.     *)
(* For records that all have score s it is s, and for scores 2, 8, 5 at      *)
(* increasing timestamps it is 5.0.                                          *)
C9_GlobalRiskIndex ==
    Rendered =>
        LET n == Len(db)
            w == Min(IndexWindow, n)
            v == globalRiskIndex
        IN IF n = 0 THEN v = NumberZero
           ELSE /\ Cardinality(WindowRows) = w
                /\ \A i \in WindowRows : \A j \in DOMAIN db \ WindowRows :
                      db[i].timestamp >= db[j].timestamp
                /\ v.type = "string" /\ v.frac \in 0..9 /\ v.int >= 0
                /\ 2 * Abs(10 * SumOfRows(WindowRows) - ParseFloat(v) * w) <= w
                /\ \A s \in ScoreRange :
                      (\A i \in DOMAIN db : db[i].risk_score = s) =>
                          ParseFloat(v) = 10 * s
                /\ db = ScenarioStore => v = DecimalText(50)

\* More records than the window takes, and the one left out has another
\* score than those in the window.
C9_Witness ==
    /\ Rendered
    /\ Len(db) > IndexWindow
    /\ \E i \in DOMAIN db \ WindowRows : \E j \in WindowRows :
          db[i].risk_score # db[j].risk_score
    /\ ParseFloat(globalRiskIndex) = 70

(* C10: the label is Elevated for an index >= 7, Moderate for 4 <= index <   *)
(* 7 and Low below 4, the index 0 of the empty Store included; for a window  *)
(* of 1..15 records with scores in 1..10 the label of the one-decimal index  *)
(* is the label of the exact mean.                                           *)
C10_LabelBands ==
    Rendered =>
        LET t == ParseFloat(globalRiskIndex)
            w == Min(IndexWindow, Len(db))
        IN /\ t >= 70 => globalRiskLabel = "Elevated Geopolitical Risk"
           /\ (40 <= t /\ t < 70) => globalRiskLabel = "Moderate Geopolitical Tension"
           /\ t < 40 => globalRiskLabel = "Low Geopolitical Risk"
           /\ Len(db) = 0 => globalRiskLabel = "Low Geopolitical Risk"
           /\ Len(db) > 0 => globalRiskLabel = Band(SumOfRows(WindowRows), w)

\* A full window whose mean is the nearest one below the Elevated band: the
\* index reads 6.9 and the label is Moderate.
C10_Witness ==
    /\ Rendered
    /\ Cardinality(WindowRows) = IndexWindow
    /\ SumOfRows(WindowRows) = 7 * IndexWindow - 1
    /\ globalRiskIndex = DecimalText(69)
    /\ globalRiskLabel = "Moderate Geopolitical Tension"

-----------------------------------------------------------------------------
(* Client: the other aggregates, useMemo over cachedAnalyses, App.tsx 107-132 *)

\* c.risk_score >= 7
CriticalFloor == 7
\* .slice(0, 5) of criticalEvents
CriticalLimit == 5

CriticalEntry(c) ==
    [headline |-> c.headline, score |-> c.risk_score,
     analysis |-> JsonParse(c.analysis)]

\* .map(c => ({ headline, score, analysis }))
CriticalEntries(rows) == [k \in DOMAIN rows |-> CriticalEntry(rows[k])]

\* cachedAnalyses.filter(c => c.risk_score >= 7).map(...).slice(0, 5)
criticalEventsOf(snapshot) ==
    Slice(CriticalEntries(SelectSeq(snapshot,
                                    LAMBDA c : c.risk_score >= CriticalFloor)),
          0, CriticalLimit)

criticalEvents == criticalEventsOf(cachedAnalyses)

\* new Date(date).getTime(): the milliseconds of a timestamp of the table,
\* which has seconds
DateGetTime(date) == 1000 * date

TrendPoint(c) == [date |-> c.timestamp, score |-> c.risk_score]

\* .map(c => ({ date, score }))
TrendPoints(rows) == [k \in DOMAIN rows |-> TrendPoint(rows[k])]

\* Array.prototype.sort with the comparator of line 113: the sort is stable,
\* so a point goes behind the points that are not later than it.
RECURSIVE SortByDate(_)
SortByDate(points) ==
    IF points = <<>> THEN <<>>
    ELSE LET sorted == SortByDate(SubSeq(points, 1, Len(points) - 1))
             last == points[Len(points)]
             before == {k \in DOMAIN sorted :
                          DateGetTime(sorted[k].date) - DateGetTime(last.date) <= 0}
             at == IF before = {} THEN 0 ELSE MaxOf(before)
         IN SubSeq(sorted, 1, at) \o <<last>> \o SubSeq(sorted, at + 1, Len(sorted))

\* cachedAnalyses.map(c => ({date, score})).sort(...)
trendDataOf(snapshot) == SortByDate(TrendPoints(snapshot))

trendData == trendDataOf(cachedAnalyses)

MapPoint(c) ==
    LET analysis == JsonParse(c.analysis)
    IN [name |-> analysis.region, score |-> analysis.riskScore]

\* cachedAnalyses.map(c => { ...; return { name, score } })
mapDataOf(snapshot) == [k \in DOMAIN snapshot |-> MapPoint(snapshot[k])]

mapData == mapDataOf(cachedAnalyses)

-----------------------------------------------------------------------------
(* The aggregates over a large corpus: page loads that find nothing to      *)
(* backfill, over a database file with more rows than GET /api/cache        *)
(* returns.                                                                  *)

\* most rows of such a database file
MaxCorpusRows == 51

\* most rows of a score that differs from the others' (the oldest ones)
MaxOdd == 7

\* The first j rows score a and the others b; one of the pairs has both
\* scores at or above the floor, one has both below.
CorpusStores ==
    {AggStore(n, p[1], p[2], j, tie) :
        n \in 0..MaxCorpusRows,
        p \in {<<8, 5>>, <<5, 8>>, <<7, 9>>, <<6, 4>>},
        j \in 0..MaxOdd, tie \in {0, 1, CriticalLimit, MaxCorpusRows - 1}}

InitCorpus ==
    /\ db \in CorpusStores \cup {ScenarioStore}
    /\ clock = Len(db)
    /\ news = <<>>
    /\ cachedAnalyses = <<>>
    /\ currentAnalysis = NoAnalysis
    /\ isInitializing = TRUE
    /\ initPc = "start"
    /\ initIdx = 0
    /\ initAnalysis = NoAnalysis
    /\ req = EmptyBag
    /\ bfStarted = <<>>
    /\ succeeded = {}
    /\ lastPut = HistoryOf(db)
    /\ failed = {}

\* /api/news answers with no items.
InitFetchCorpus == InitFetchFrom({<<>>})

NextCorpus ==
    \/ InitFetchCorpus
    \/ Reload

SpecCorpus == InitCorpus /\ [][NextCorpus]_vars

-----------------------------------------------------------------------------
\* The records of the Store that qualify as critical.
Qualifying == {i \in DOMAIN db : db[i].risk_score >= CriticalFloor}

\* The records of the Store that entry e of the shortlist shows.
EntryRows(e) ==
    {i \in DOMAIN db :
        /\ db[i].headline = e.headline
        /\ db[i].risk_score = e.score
        /\ JsonParse(db[i].analysis) = e.analysis}

\* The record of the Store that entry e shows (there is one).
EntryRow(e) == CHOOSE i \in EntryRows(e) : TRUE

\* The shortlist shows distinct records of the Store, each at least as
\* recent as the next, all with a score of CriticalFloor or more.
ShortlistSound ==
    LET l == criticalEvents
    IN /\ Len(l) <= CriticalLimit
       /\ \A k \in DOMAIN l :
             /\ l[k].score >= CriticalFloor
             /\ Cardinality(EntryRows(l[k])) = 1
       /\ \A k, m \in DOMAIN l :
             k < m =>
                /\ EntryRow(l[k]) # EntryRow(l[m])
                /\ db[EntryRow(l[k])].timestamp >= db[EntryRow(l[m])].timestamp
       /\ db = <<>> => l = <<>>

\* The shortlist shows the CriticalLimit most recent of the qualifying
\* records of the Store, all of them when there are fewer.
ShortlistComplete ==
    LET l == criticalEvents
        shown == {EntryRow(l[k]) : k \in DOMAIN l}
    IN /\ Len(l) = Min(CriticalLimit, Cardinality(Qualifying))
       /\ \A i \in shown : \A j \in Qualifying \ shown :
             db[i].timestamp >= db[j].timestamp

(* C11: the Critical Events list shows only records with riskScore >= 7, at  *)
(* most 5 of them, most recent first, and they are the 5 most recent         *)
(* qualifying records of the Store (all of them when fewer qualify); it is   *)
(* empty for the empty Store.                                                *)
C11_CriticalEvents == Rendered => (ShortlistSound /\ ShortlistComplete)

-----------------------------------------------------------------------------
(* Client: sectorImpacts, useMemo over cachedAnalyses, App.tsx 134-157 *)

UpperCase ==
    <<"A", "B", "C", "D", "E", "F", "G", "H", "I", "J", "K", "L", "M", "N",
      "O", "P", "Q", "R", "S", "T", "U", "V", "W", "X", "Y", "Z">>

LowerCase ==
    <<"a", "b", "c", "d", "e", "f", "g", "h", "i", "j", "k", "l", "m", "n",
      "o", "p", "q", "r", "s", "t", "u", "v", "w", "x", "y", "z">>

\* String.prototype.toLowerCase
ToLowerCase(text) ==
    [k \in DOMAIN text |->
        IF \E u \in DOMAIN UpperCase : UpperCase[u] = text[k]
        THEN LowerCase[CHOOSE u \in DOMAIN UpperCase : UpperCase[u] = text[k]]
        ELSE text[k]]

\* String.prototype.includes
Includes(text, part) ==
    \E o \in 0..(Len(text) - Len(part)) :
        SubSeq(text, o + 1, o + Len(part)) = part

\* sectors[s].reason.length < 2
ReasonLimit == 2

Energy ==
    <<"E", "n", "e", "r", "g", "y">>
Defense ==
    <<"D", "e", "f", "e", "n", "s", "e">>
Semiconductors ==
    <<"S", "e", "m", "i", "c", "o", "n", "d", "u", "c", "t", "o", "r", "s">>
Shipping ==
    <<"S", "h", "i", "p", "p", "i", "n", "g">>
Banking ==
    <<"B", "a", "n", "k", "i", "n", "g">>
Technology ==
    <<"T", "e", "c", "h", "n", "o", "l", "o", "g", "y">>

\* Object.keys(sectors), in the order the literal lists them
SectorLabels == <<Energy, Defense, Semiconductors, Shipping, Banking, Technology>>

EmptySectors == [k \in DOMAIN SectorLabels |-> [count |-> 0, reason |-> <<>>]]

\* ind.toLowerCase().includes(s.toLowerCase())
Matches(ind, label) == Includes(ToLowerCase(ind), ToLowerCase(label))

\* Object.keys(sectors).forEach(s => { if (...) { count++; push } })
VisitIndustry(sectors, ind, consequences) ==
    [k \in DOMAIN SectorLabels |->
        IF Matches(ind, SectorLabels[k])
        THEN [count |-> sectors[k].count + 1,
              reason |-> IF Len(sectors[k].reason) < ReasonLimit
                         THEN Append(sectors[k].reason, consequences)
                         ELSE sectors[k].reason]
        ELSE sectors[k]]

\* analysis.industries.forEach(ind => ...)
RECURSIVE VisitIndustries(_, _, _)
VisitIndustries(sectors, industries, consequences) ==
    IF industries = <<>> THEN sectors
    ELSE VisitIndustries(VisitIndustry(sectors, Head(industries), consequences),
                         Tail(industries), consequences)

\* cachedAnalyses.forEach(c => ...)
RECURSIVE VisitRecords(_, _)
VisitRecords(sectors, snapshot) ==
    IF snapshot = <<>> THEN sectors
    ELSE LET analysis == JsonParse(Head(snapshot).analysis)
         IN VisitRecords(VisitIndustries(sectors, analysis.industries,
                                         analysis.consequences),
                         Tail(snapshot))

\* Object.entries(sectors).filter(([_, data]) => data.count > 0)
sectorImpactsOf(snapshot) ==
    LET sectors == VisitRecords(EmptySectors, snapshot)
    IN SelectSeq([k \in DOMAIN SectorLabels |->
                     [sector |-> SectorLabels[k], count |-> sectors[k].count,
                      reason |-> sectors[k].reason]],
                 LAMBDA e : e.count > 0)

sectorImpacts == sectorImpactsOf(cachedAnalyses)

-----------------------------------------------------------------------------
(* sectorImpacts on its own: page loads that find nothing to backfill, over *)
(* a database file whose analyses name industries.                           *)

SemiconductorManufacturing ==
    <<"S", "e", "m", "i", "c", "o", "n", "d", "u", "c", "t", "o", "r", " ",
      "m", "a", "n", "u", "f", "a", "c", "t", "u", "r", "i", "n", "g">>
RenewableEnergy ==
    <<"r", "e", "n", "e", "w", "a", "b", "l", "e", " ", "E", "N", "E", "R",
      "G", "Y">>
EnergyShipping ==
    <<"E", "n", "e", "r", "g", "y", " ", "s", "h", "i", "p", "p", "i", "n",
      "g">>
Retail ==
    <<"R", "e", "t", "a", "i", "l">>

\* The industries lists of the analyses.
IndustryLists ==
    {<<>>, <<Retail>>, <<Energy>>, <<SemiconductorManufacturing>>,
     <<EnergyShipping, Defense>>, <<Energy, RenewableEnergy>>,
     <<Semiconductors, Banking, Technology>>}

\* most rows of such a database file
MaxSectorRows == 3

\* Row i of the store, with the industries list l (put at time i).
SectorRow(i, l) ==
    [id |-> i, headline |-> Headline(i),
     analysis |-> JsonStringify(AnalysisOf(5, "region", l, <<"c", i>>)),
     risk_score |-> 5, timestamp |-> i]

SectorStores ==
    UNION {{[i \in 1..n |-> SectorRow(i, ls[i])] : ls \in [1..n -> IndustryLists]} :
              n \in 0..MaxSectorRows}

InitSector ==
    /\ db \in SectorStores
    /\ clock = Len(db)
    /\ news = <<>>
    /\ cachedAnalyses = <<>>
    /\ currentAnalysis = NoAnalysis
    /\ isInitializing = TRUE
    /\ initPc = "start"
    /\ initIdx = 0
    /\ initAnalysis = NoAnalysis
    /\ req = EmptyBag
    /\ bfStarted = <<>>
    /\ succeeded = {}
    /\ lastPut = HistoryOf(db)
    /\ failed = {}

\* /api/news answers with no items.
InitFetchSector == InitFetchFrom({<<>>})

NextSector ==
    \/ InitFetchSector
    \/ Reload

SpecSector == InitSector /\ [][NextSector]_vars

-----------------------------------------------------------------------------
\* The places of the snapshot whose record has an industry string that
\* contains the label, whatever the case of the letters.
MatchingRecords(label) ==
    {k \in DOMAIN cachedAnalyses :
        \E ind \in {JsonParse(cachedAnalyses[k].analysis).industries[m] :
                      m \in DOMAIN JsonParse(cachedAnalyses[k].analysis).industries} :
            Matches(ind, label)}

\* The entries of the summary for the label.
EntriesOf(label) == {e \in DOMAIN sectorImpacts : sectorImpacts[e].sector = label}

\* The excerpts are consequences of matching records, in the order in which
\* the records are seen.
FirstSeenOrder(label, reason) ==
    \E at \in [DOMAIN reason -> MatchingRecords(label)] :
        /\ \A r \in DOMAIN reason :
              reason[r] = JsonParse(cachedAnalyses[at[r]].analysis).consequences
        /\ \A r, t \in DOMAIN reason : r < t => at[r] <= at[t]
        /\ \A r \in DOMAIN reason : \A k \in MatchingRecords(label) :
              k < at[r] => \E t \in DOMAIN reason : at[t] = k

(* C12: for each of the six sectors the summary reports the number of        *)
(* records with an industry string that contains the sector label (letter    *)
(* case ignored), a record counting once however many of its strings match,  *)
(* and at most 2 consequence excerpts in first-seen order; a sector without  *)
(* a matching record has no entry.                                           *)
C12_SectorImpacts ==
    Rendered =>
        \A s \in DOMAIN SectorLabels :
            LET label == SectorLabels[s]
                n == Cardinality(MatchingRecords(label))
            IN IF n = 0 THEN EntriesOf(label) = {}
               ELSE /\ Cardinality(EntriesOf(label)) = 1
                    /\ \A e \in EntriesOf(label) :
                          /\ sectorImpacts[e].count = n
                          /\ Len(sectorImpacts[e].reason) <= ReasonLimit
                          /\ FirstSeenOrder(label, sectorImpacts[e].reason)

-----------------------------------------------------------------------------
\* How often the point p occurs in the series l.
Occurs(l, p) == Cardinality({k \in DOMAIN l : l[k] = p})

\* The points of the series l at the timestamp t, in their order.
PointsAt(l, t) == SelectSeq(l, LAMBDA p : p.date = t)

(* C13: the Risk Trend Series has one (timestamp, riskScore) pair for every  *)
(* record of the Store, however many there are, in ascending order of the    *)
(* timestamp, records of equal timestamp in the order in which the Store     *)
(* returned them.                                                            *)
C13_TrendSeries ==
    Rendered =>
        LET series == trendData
            stored == TrendPoints(db)
            returned == TrendPoints(cachedAnalyses)
            points == {stored[i] : i \in DOMAIN stored}
        IN /\ Len(series) = Len(stored)
           /\ \A p \in points : Occurs(series, p) = Occurs(stored, p)
           /\ \A k \in 1..(Len(series) - 1) : series[k].date <= series[k + 1].date
           /\ \A t \in {p.date : p \in points} :
                 PointsAt(series, t) = PointsAt(returned, t)

-----------------------------------------------------------------------------
\* The timestamp of the record a database d holds for id (there is one).
CreatedAt(d, id) == d[CHOOSE i \in RowsOf(d, id) : TRUE].timestamp

(* C14: the createdAt of a record is the time of its first insertion: a      *)
(* later put for the same identity leaves it as it is, and with it the       *)
(* record's place among the others in the order of createdAt.                *)
C14_CreatedAtKept ==
    [][\A id \in Ids :
          (HasRow(db, id) /\ HasRow(db', id)) =>
              /\ CreatedAt(db', id) = CreatedAt(db, id)
              /\ \A other \in Ids :
                    (HasRow(db, other) /\ HasRow(db', other)) =>
                        ((CreatedAt(db, id) < CreatedAt(db, other))
                            <=> (CreatedAt(db', id) < CreatedAt(db', other)))]_vars

-----------------------------------------------------------------------------
(* C15: a put that the storage fails is an error for the caller of the       *)
(* write: a handleAnalyze call goes on behind saveToCache only when the      *)
(* record was stored, a backfill step that left no record for its candidate  *)
(* ends in the catch block, and a failed put leaves the Store as it was.     *)
C15_PersistenceErrorSurfaced ==
    [][/\ \A c \in InFlight : \A c2 \in BagToSet(req') :
             (Becomes(c, c2) /\ c.pc = "saving") =>
                 (c2.applied /\ HasRow(db', c.id))
       /\ \A c \in InFlight :
             (Returns(c) /\ c.pc = "saving") => db' = db
       /\ (initPc = "saving" /\ initPc' \in {"analyzing", "refetch", "done"}
              /\ ~HasRow(db', toAnalyze[initIdx])) =>
             (initPc' = "done" /\ db' = db)]_vars

-----------------------------------------------------------------------------
(* C16: what GET /api/cache returns has at most CacheLimit records, a more   *)
(* recent record before a less recent one, and of two records with the same  *)
(* timestamp the one with the smaller identity first, so that the Store      *)
(* contents determine the result.                                            *)
C16_ListRecentOrder ==
    Rendered =>
        /\ Len(cachedAnalyses) <= CacheLimit
        /\ \A k \in 1..(Len(cachedAnalyses) - 1) :
              LET a == cachedAnalyses[k]
                  b == cachedAnalyses[k + 1]
              IN \/ a.timestamp > b.timestamp
                 \/ a.timestamp = b.timestamp /\ a.id < b.id

-----------------------------------------------------------------------------
(* The analyzer's responses: the application over a feed with a headline    *)
(* that the analyzer may answer out of the schema.                           *)

InitFetchHard == InitFetchFrom(HardFeeds)

NextHard ==
    \/ Tick
    \/ InitFetchHard
    \/ InitFetchFail
    \/ InitAnalyzed
    \/ InitAnalyzeFail
    \/ InitSave
    \/ InitSaveFail
    \/ InitRefetch
    \/ InitRefetchFail
    \/ \E id \in Ids : HandleAnalyze(id)
    \/ \E c \in InFlight : Analyzed(c)
    \/ \E c \in InFlight : AnalyzeFail(c)
    \/ \E c \in InFlight : Save(c)
    \/ \E c \in InFlight : SaveFail(c)
    \/ \E c \in InFlight : Refetch(c)
    \/ \E c \in InFlight : RefetchFail(c)
    \/ Reload

SpecHard == Init /\ [][NextHard]_vars

\* The fields of the schema's `required` that the program reads.
RequiredFields == {"riskScore", "region", "industries", "consequences"}

WellFormed(analysis) == RequiredFields \subseteq DOMAIN analysis

(* C17: a structurally invalid answer of the analyzer (an empty object, an   *)
(* object without industries) is an analysis failure: no record with such    *)
(* an answer is written to the Store, and a request that is served without   *)
(* calling the analyzer shows a valid assessment.                            *)
C17_MalformedNotCached ==
    [][/\ \A i \in DOMAIN db' : WellFormed(JsonParse(db'[i].analysis))
       /\ \A y \in Ids :
             (HandleAnalyze(y) /\ ~Invokes(y)) => WellFormed(currentAnalysis')]_vars

-----------------------------------------------------------------------------
\* The record of the Store for id, after the step.
StoredAfter(id) == db'[CHOOSE i \in RowsOf(db', id) : TRUE]

(* C18: when init() returns after a backfill, whether every candidate        *)
(* succeeded or one failed, the snapshot has been read again from the        *)
(* Store: it holds the record of every candidate the backfill got to and     *)
(* the Store has a record for.  (An ending in which the closing read itself  *)
(* fails is left aside.)                                                     *)
C18_RefreshedAfterBackfill ==
    [][(InitEnds /\ bfStarted # <<>> /\ initPc # "refetch") \/ InitRefetch =>
          \A k \in DOMAIN bfStarted :
              HasRow(db', bfStarted[k]) =>
                  \E m \in DOMAIN cachedAnalyses' :
                      cachedAnalyses'[m] = StoredAfter(bfStarted[k])]_vars

-----------------------------------------------------------------------------
(* C19: every record of the Store has a risk_score column equal to the       *)
(* riskScore inside its analysis text, whoever wrote it and however the      *)
(* writes for one identity interleaved; so for every record of the snapshot  *)
(* the score the map overlay reads from the text is the score the index,     *)
(* the trend and the critical events read from the column.                   *)
C19_ColumnEqualsBlob ==
    /\ \A i \in DOMAIN db :
          db[i].risk_score = JsonParse(db[i].analysis).riskScore
    /\ LET overlay == mapData
           series == TrendPoints(cachedAnalyses)
       IN \A k \in DOMAIN cachedAnalyses :
             /\ overlay[k].score = cachedAnalyses[k].risk_score
             /\ overlay[k].score = series[k].score

\* Identity 1 was written with score 3 and then again with score 8 by a
\* call that ran together with the first; the snapshot holds the record.
C19_Witness ==
    /\ \E c \in InFlight :
          c.id = 1 /\ c.applied /\ c.analysis = Analysis(3)
    /\ lastPut[1] = Analysis(8)
    /\ Stored(1).risk_score = 8
    /\ \E k \in DOMAIN cachedAnalyses :
          cachedAnalyses[k] = Stored(1) /\ mapData[k].score = 8

====
